---- MODULE Spec2Model ----
(***************************************************************************)
(* A model of lcmgen.c: the recursive-descent parser of LCM type           *)
(* declarations (lcmgen_handle_file, parse_entity, parse_struct,           *)
(* parse_enum, parse_member, parse_enum_value) and the type signatures     *)
(* (hash_update, hash_string_update, lcm_struct_hash, lcm_enum_hash).      *)
(*                                                                         *)
(* A C string is a sequence of one-character strings; an int64_t is a      *)
(* sequence of 8 bytes, least significant first.                           *)
(***************************************************************************)
EXTENDS Integers, Sequences, FiniteSets, TLC

\* ------------------------------------------------------------------ strings

\* The printable ASCII characters, in code order starting at code 32 (the
\* entry of code 96 is spelled out: no token uses that character).
Printable ==
  << " ", "!", "\"", "#", "$", "%", "&", "'", "(", ")", "*", "+", ",", "-", ".", "/",
     "0", "1", "2", "3", "4", "5", "6", "7", "8", "9", ":", ";", "<", "=", ">", "?",
     "@", "A", "B", "C", "D", "E", "F", "G", "H", "I", "J", "K", "L", "M", "N", "O",
     "P", "Q", "R", "S", "T", "U", "V", "W", "X", "Y", "Z", "[", "\\", "]", "^", "_",
     "grave", "a", "b", "c", "d", "e", "f", "g", "h", "i", "j", "k", "l", "m", "n", "o",
     "p", "q", "r", "s", "t", "u", "v", "w", "x", "y", "z", "{", "|", "}", "~" >>

\* The character code of each character.
OrdTable ==
  [ch \in {Printable[i] : i \in 1..Len(Printable)} |->
     31 + (CHOOSE i \in 1..Len(Printable) : Printable[i] = ch)]

\* The character code of a one-character string.
Ord(ch) == OrdTable[ch]

isalpha(ch) == (Ord(ch) >= 65 /\ Ord(ch) <= 90) \/ (Ord(ch) >= 97 /\ Ord(ch) <= 122)

isdigit(ch) == Ord(ch) >= 48 /\ Ord(ch) <= 57

\* ------------------------------------------------------------------ int64_t

Bytes == 1..8

Zero64 == [i \in Bytes |-> 0]

\* The conversion of an int (or size_t) to the char parameter of hash_update:
\* char is a signed 8-bit type in the builds this models.
ToChar(n) == IF n % 256 >= 128 THEN (n % 256) - 256 ELSE n % 256

\* The sign extension of a char to 64 bits.
SignExtend(c) == [i \in Bytes |-> IF i = 1 THEN c % 256 ELSE IF c < 0 THEN 255 ELSE 0]

RECURSIVE XorBits(_, _, _)
XorBits(a, b, n) ==
  IF n = 0 THEN 0
  ELSE (IF a % 2 = b % 2 THEN 0 ELSE 1) + 2 * XorBits(a \div 2, b \div 2, n - 1)

\* The exclusive or of two bytes, tabulated.
XorTable == [a \in 0..255 |-> [b \in 0..255 |-> XorBits(a, b, 8)]]

Xor64(a, b) == [i \in Bytes |-> XorTable[a[i]][b[i]]]

\* v << 8 : the top byte is shifted out.
Shl8(v) == [i \in Bytes |-> IF i = 1 THEN 0 ELSE v[i - 1]]

\* v >> 55 on an int64_t: an arithmetic shift, bits 55..63 move to bits 0..8
\* and the sign bit fills the rest.
Sar55(v) ==
  LET low == (v[7] \div 128) + 2 * v[8]
      neg == v[8] >= 128
  IN  [i \in Bytes |-> IF i = 1 THEN low % 256
                       ELSE IF neg THEN 255
                       ELSE IF i = 2 THEN low \div 256 ELSE 0]

\* The bytes i..8 of a + b, given the carry into byte i.
RECURSIVE AddFrom(_, _, _, _)
AddFrom(a, b, i, carry) ==
  IF i > 8 THEN <<>>
  ELSE <<(a[i] + b[i] + carry) % 256>>
         \o AddFrom(a, b, i + 1, (a[i] + b[i] + carry) \div 256)

\* a + b modulo 2^64.
Add64(a, b) == AddFrom(a, b, 1, 0)

\* ------------------------------------------------------------------ signatures

\* The values of an int64_t.
Int64 == [Bytes -> 0..255]

\* A hash_update whose right shift fills with zeros.
hash_update_with_logical_shift(v, c) ==
  LET low == (v[7] \div 128) + 2 * v[8]
      shr55 == [i \in Bytes |-> IF i = 1 THEN low % 256
                                ELSE IF i = 2 THEN low \div 256 ELSE 0]
      update[w \in Int64] == Add64(Xor64(Shl8(w), shr55), SignExtend(c))
  IN  update[v]

\* v = ((v << 8) ^ (v >> 55)) + c, as a function of the value of v.
hash_update(v, c) ==
  LET update[w \in Int64] == Add64(Xor64(Shl8(w), Sar55(w)), SignExtend(c))
  IN  update[v]

\* The loop of hash_string_update over the characters of s, as a function of
\* the value of v at its start.
hash_chars[v \in Int64, s \in Seq(STRING)] ==
  IF s = <<>> THEN v ELSE hash_chars[hash_update(v, Ord(Head(s))), Tail(s)]

hash_string_update(v, s) == hash_chars[hash_update(v, ToChar(Len(s))), s]


\* ------------------------------------------------------------------ tokens

tok_struct == <<"s", "t", "r", "u", "c", "t">>
tok_enum   == <<"e", "n", "u", "m">>
tok_union  == <<"u", "n", "i", "o", "n">>
tok_int8   == <<"i", "n", "t", "8", "_", "t">>
tok_int16  == <<"i", "n", "t", "1", "6", "_", "t">>
tok_int32  == <<"i", "n", "t", "3", "2", "_", "t">>
tok_int64  == <<"i", "n", "t", "6", "4", "_", "t">>
tok_byte   == <<"b", "y", "t", "e">>
tok_float  == <<"f", "l", "o", "a", "t">>
tok_double == <<"d", "o", "u", "b", "l", "e">>
tok_string == <<"s", "t", "r", "i", "n", "g">>
tok_boolean == <<"b", "o", "o", "l", "e", "a", "n">>

primitive_types ==
  { tok_int8, tok_int16, tok_int32, tok_int64, tok_byte, tok_float, tok_double,
    tok_string, tok_boolean }

array_dimension_types == { tok_int8, tok_int16, tok_int32, tok_int64 }

lcm_is_primitive_type(t) == t \in primitive_types

lcm_is_array_dimension_type(t) == t \in array_dimension_types

lcm_is_legal_member_name(t) == isalpha(t[1]) \/ t[1] = "_"

\* The value of a digit in bases up to 16; 99 for a character that is no digit.
DigitVal(ch) ==
  IF isdigit(ch) THEN Ord(ch) - 48
  ELSE IF Ord(ch) >= 97 /\ Ord(ch) <= 102 THEN Ord(ch) - 87
  ELSE IF Ord(ch) >= 65 /\ Ord(ch) <= 70 THEN Ord(ch) - 55
  ELSE 99

\* The bytes i..8 of v * base + carry, followed by the carry out of byte 8.
RECURSIVE MulAddFrom(_, _, _, _)
MulAddFrom(v, base, i, carry) ==
  IF i > 8 THEN <<carry>>
  ELSE <<(v[i] * base + carry) % 256>>
         \o MulAddFrom(v, base, i + 1, (v[i] * base + carry) \div 256)

\* LONG_MAX and LONG_MIN of a 64-bit long, and the negation of a long.
LONG_MAX == [i \in Bytes |-> IF i = 8 THEN 127 ELSE 255]
LONG_MIN == [i \in Bytes |-> IF i = 8 THEN 128 ELSE 0]

Neg64(v) == Add64([i \in Bytes |-> 255 - v[i]], [i \in Bytes |-> IF i = 1 THEN 1 ELSE 0])

\* What the loop of strtol carries from digit to digit.
Acc == [mag : Int64, range : BOOLEAN]

\* The digits of strtol: the magnitude read so far, and whether it has left
\* the range of a long. The conversion stops at the first character that is
\* no digit of the base.
strtol_digits[s \in Seq(STRING), base \in {8, 10, 16}, acc \in Acc] ==
  IF s = <<>> \/ DigitVal(Head(s)) >= base THEN acc
  ELSE LET r == MulAddFrom(acc.mag, base, 1, DigitVal(Head(s)))
       IN  strtol_digits[Tail(s), base,
                         [mag   |-> SubSeq(r, 1, 8),
                          range |-> acc.range \/ r[9] # 0 \/ r[8] >= 128]]

\* strtol(s, NULL, 0) with a 64-bit long: an optional sign, then a hexadecimal
\* (0x), octal (0) or decimal number; the conversion stops at the first
\* character that is no digit of the base, and is 0 when there is no digit at
\* all; a number out of the range of a long gives LONG_MAX or LONG_MIN.
strtol(s) ==
  LET neg   == s # <<>> /\ Head(s) = "-"
      r     == IF s # <<>> /\ Head(s) \in {"-", "+"} THEN Tail(s) ELSE s
      hex   == Len(r) >= 3 /\ r[1] = "0" /\ r[2] \in {"x", "X"} /\ DigitVal(r[3]) < 16
      oct   == Len(r) >= 1 /\ r[1] = "0"
      start == [mag |-> Zero64, range |-> FALSE]
      acc   == IF hex THEN strtol_digits[SubSeq(r, 3, Len(r)), 16, start]
               ELSE IF oct THEN strtol_digits[r, 8, start]
               ELSE strtol_digits[r, 10, start]
  IN  IF acc.range THEN (IF neg THEN LONG_MIN ELSE LONG_MAX)
      ELSE IF neg THEN Neg64(acc.mag) ELSE acc.mag

\* The conversion of a long to int or int32_t: the low 32 bits, as a signed
\* number.
long_to_int(v) ==
  (IF v[4] >= 128 THEN v[4] - 256 ELSE v[4]) * 16777216
    + v[3] * 65536 + v[2] * 256 + v[1]

\* ------------------------------------------------------------------ the AST

LCM_CONST == 0
LCM_VAR == 1

lcm_struct_create(structname) ==
  [structname |-> structname, members |-> <<>>, hash |-> Zero64]

lcm_enum_create(name) == [enumname |-> name, values |-> <<>>, hash |-> Zero64]

lcm_member_create(type, membername) ==
  [type |-> type, membername |-> membername, dimensions |-> <<>>]

\* lcm_is_constant_size_array: 1 without a dimension, 0 at the first dimension
\* of mode LCM_VAR, 1 after the loop.
lcm_is_constant_size_array(lm) ==
  LET ndim == Len(lm.dimensions)
  IN  IF ndim = 0 THEN 1
      ELSE IF \E i \in 1..ndim : lm.dimensions[i].mode = LCM_VAR THEN 0
      ELSE 1

\* An lcm_find_member whose loop returns after the first member.
lcm_find_member_first_only(lr, name) ==
  IF lr.members # <<>> /\ lr.members[1].membername = name THEN 1 ELSE 0

\* The index of the first member of lr named name, 0 when there is none.
lcm_find_member(lr, name) ==
  IF \E i \in 1..Len(lr.members) : lr.members[i].membername = name
  THEN CHOOSE i \in 1..Len(lr.members) :
         /\ lr.members[i].membername = name
         /\ \A j \in 1..(i - 1) : lr.members[j].membername # name
  ELSE 0

StructSeed == <<120, 86, 52, 18, 0, 0, 0, 0>>   \* 0x12345678
EnumSeed == <<33, 67, 101, 135, 0, 0, 0, 0>>    \* 0x87654321

RECURSIVE hash_dimensions(_, _)
hash_dimensions(v, dims) ==
  IF dims = <<>> THEN v
  ELSE hash_dimensions(
         hash_string_update(hash_update(v, ToChar(Head(dims).mode)), Head(dims).size),
         Tail(dims))

\* A loop of lcm_struct_hash that leaves the name of a member of compound type
\* out of the hash, as it leaves its type out.
hash_member_without_compound_name(v, lm) ==
  LET v2 == IF lcm_is_primitive_type(lm.type)
            THEN hash_string_update(hash_string_update(v, lm.membername), lm.type)
            ELSE v
      v3 == hash_update(v2, ToChar(Len(lm.dimensions)))
  IN  hash_dimensions(v3, lm.dimensions)

\* A loop of lcm_struct_hash that feeds the type of every member.
hash_member_with_every_type(v, lm) ==
  LET v1 == hash_string_update(v, lm.membername)
      v2 == hash_string_update(v1, lm.type)
      v3 == hash_update(v2, ToChar(Len(lm.dimensions)))
  IN  hash_dimensions(v3, lm.dimensions)

\* One iteration of the loop of lcm_struct_hash.
hash_member(v, lm) ==
  LET v1 == hash_string_update(v, lm.membername)
      v2 == IF lcm_is_primitive_type(lm.type) THEN hash_string_update(v1, lm.type) ELSE v1
      v3 == hash_update(v2, ToChar(Len(lm.dimensions)))
  IN  hash_dimensions(v3, lm.dimensions)

RECURSIVE hash_members(_, _)
hash_members(v, members) ==
  IF members = <<>> THEN v ELSE hash_members(hash_member(v, Head(members)), Tail(members))

\* An lcm_struct_hash with the commented-out update of line 176.
lcm_struct_hash_with_structname(lr) ==
  hash_members(hash_string_update(StructSeed, lr.structname), lr.members)

lcm_struct_hash(lr) == hash_members(StructSeed, lr.members)

\* An lcm_enum_hash that feeds the number of values of the enum as well.
lcm_enum_hash_with_values(le) ==
  hash_update(hash_string_update(EnumSeed, le.enumname), ToChar(Len(le.values)))

lcm_enum_hash(le) == hash_string_update(EnumSeed, le.enumname)


\* ------------------------------------------------------------------ the input

\* The tokens the tokenizer hands to the parser in this model.
\* The number 2^32 as a token: an array size that does not fit an int.
tok_2_32 == <<"4", "2", "9", "4", "9", "6", "7", "2", "9", "6">>

Tokens ==
  { tok_struct, tok_enum, tok_union,
    <<"{">>, <<"}">>, <<"[">>, <<"]">>, <<",">>, <<";">>, <<"=">>,
    tok_int8, tok_byte, <<"T">>, <<"n">>,
    <<"0">>, <<"2">>, <<"-", "1">> }

\* The tokens of longer files: of structs with arrays, of several structs, of
\* enums with values, of enums with separators.
ArrayTokens ==
  { tok_struct, <<"{">>, <<"}">>, <<"[">>, <<"]">>, <<",">>, <<";">>, tok_int8, <<"n">>,
    <<"0">>, <<"2">>, tok_2_32 }

MemberTokens == { tok_struct, <<"{">>, <<"}">>, <<",">>, <<";">>, <<"n">> }

ValueTokens == { tok_enum, <<"{">>, <<"}">>, <<"=">>, <<"n">>, <<"-", "1">> }

SeparatorTokens == { tok_enum, <<"{">>, <<"}">>, <<",">>, <<";">>, <<"n">> }

\* Two member names of nine characters that differ in the first and in the
\* last character, and the tokens of structs that declare them.
name_b_c == <<"b", "a", "a", "a", "a", "a", "a", "a", "c">>
name_a_e == <<"a", "a", "a", "a", "a", "a", "a", "a", "e">>

LongNameTokens == { tok_struct, <<"{">>, <<"}">>, <<";">>, <<"n">>, name_b_c, name_a_e }

\* The tokens of empty structs and enums, for the runs of several files.
EntityTokens == { tok_struct, tok_enum, <<"{">>, <<"}">>, <<"n">> }

\* What tokenize_next and tokenize_peek return at the end of the file.
EOF == <<>>

\* t->token before the first token is read.
NoTok == <<>>

\* The number of tokens a run reads from its files, for each set of tokens the
\* files are written with; and the number of files of the runs of several
\* files.
MaxTokens == 4
MaxArrayTokens == 11
MaxMemberTokens == 16
MaxValueTokens == 9
MaxSeparatorTokens == 9
MaxLongNameTokens == 10
MaxEntityTokens == 8
MaxFiles == 2

\* The files of a run: the tokens they are written with, the number of tokens
\* the run reads from them, and their number.
Inputs ==
  { [tokens |-> Tokens, length |-> MaxTokens, files |-> 1],
    [tokens |-> ArrayTokens, length |-> MaxArrayTokens, files |-> 1],
    [tokens |-> MemberTokens, length |-> MaxMemberTokens, files |-> 1],
    [tokens |-> ValueTokens, length |-> MaxValueTokens, files |-> 1],
    [tokens |-> SeparatorTokens, length |-> MaxSeparatorTokens, files |-> 1],
    [tokens |-> LongNameTokens, length |-> MaxLongNameTokens, files |-> 1],
    [tokens |-> EntityTokens, length |-> MaxEntityTokens, files |-> MaxFiles] }

VARIABLES
  input,      \* the files of the run
  structs,    \* lcmgen->structs
  enums,      \* lcmgen->enums
  tokenize,   \* the "tokenize" option of lcmgen->gopt
  files,      \* the number of calls of lcmgen_handle_file so far
  pc,         \* where the parser stands
  token,      \* t->token: the token read last
  hasnext,    \* the token read last was peeked and is still to be consumed
  nread,      \* the number of tokens read from the files so far
  lr,         \* parse_struct: the struct being parsed
  lt,         \* parse_member: the type of the members being declared
  dim,        \* parse_member: the dimension being parsed
  le,         \* parse_enum: the enum being parsed
  lev,        \* parse_enum_value: the name of the value being parsed
  diag,       \* the message of the fatal diagnostic, if any
  hash_pc,    \* hash_string_update: where a call of it stands
  hash_v,     \* hash_update: v
  hash_c,     \* hash_update: c, the character fed last
  hash_s,     \* hash_string_update: s
  hash_i,     \* hash_string_update: the number of characters of s fed so far
  hash_log,   \* the length and the first fed character of each string fed so far
  hash_n,     \* the number of calls of the two functions made so far
  array_lm,   \* lcm_is_constant_size_array: lm
  array_ret   \* lcm_is_constant_size_array: the value returned

parser == <<input, structs, enums, tokenize, files, pc, token, hasnext, nread, lr, lt, dim, le, lev, diag>>

hashing == <<hash_pc, hash_v, hash_c, hash_s, hash_i, hash_log, hash_n>>

arrays == <<array_lm, array_ret>>

vars == <<parser, hashing, arrays>>

ast == <<lr, lt, dim, le, lev>>
registry == <<structs, enums>>

\* The locals of the parsing functions while they hold nothing.
NoStruct == lcm_struct_create(<<>>)
NoEnum == lcm_enum_create(<<>>)
NoType == <<>>
NoName == <<>>
NoDim == [mode |-> LCM_CONST, size |-> <<>>]

\* lcm_is_constant_size_array before it is called.
NoMember == lcm_member_create(NoType, NoName)
NotCalled == -1

\* lcmgen_create, before the first file is handled.
Init ==
  /\ input \in Inputs
  /\ structs = <<>>
  /\ enums = <<>>
  /\ tokenize \in BOOLEAN
  /\ files = 0
  /\ pc = "idle"
  /\ token = NoTok
  /\ hasnext = FALSE
  /\ nread = 0
  /\ lr = NoStruct
  /\ lt = NoType
  /\ dim = NoDim
  /\ le = NoEnum
  /\ lev = NoName
  /\ diag = ""
  /\ hash_pc = "idle"
  /\ hash_v = Zero64
  /\ hash_c = 0
  /\ hash_s = <<>>
  /\ hash_i = 0
  /\ hash_log = <<>>
  /\ hash_n = 0
  /\ array_lm = NoMember
  /\ array_ret = NotCalled

\* The results the tokenizer can give for the next token: the peeked token when
\* there is one, else any token of the file or the end of the file.
Avail ==
  IF hasnext THEN {token}
  ELSE IF nread < input.length THEN input.tokens \cup {EOF}
  ELSE {EOF}

\* The tokenizer hands out x: it reads x from the file unless x was peeked.
Read(x) ==
  /\ x \in Avail
  /\ nread' = IF ~hasnext /\ x # EOF THEN nread + 1 ELSE nread
  /\ token' = IF x = EOF THEN token ELSE x

\* tokenize_next returns x (EOF at the end of the file).
tokenize_next(x) == Read(x) /\ hasnext' = FALSE

\* parse_try_consume(t, tok) finds x: x is peeked, and consumed if it is tok.
\* (At the end of the file parse_try_consume calls parse_error.)
parse_try_consume(x, tok) == Read(x) /\ hasnext' = (x # EOF /\ x # tok)

\* parse_error and semantic_error print the message and _exit: nothing runs
\* after them.
parse_error(fmt) == pc' = "parse_error" /\ diag' = fmt /\ UNCHANGED <<registry, ast>>
semantic_error(fmt) == pc' = "semantic_error" /\ diag' = fmt /\ UNCHANGED <<registry, ast>>

Fatal == pc \in {"parse_error", "semantic_error"}

\* An lcmgen_handle_file that starts each file that it parses with new, empty
\* lists of structs and enums.
lcmgen_handle_file_with_new_registry ==
  /\ pc = "idle"
  /\ UNCHANGED <<hashing, arrays>>
  /\ files < input.files
  /\ files' = files + 1
  /\ \/ pc' = "idle" /\ UNCHANGED <<token, hasnext, registry>>
     \/ /\ pc' = IF tokenize THEN "idle" ELSE "entity"
        /\ token' = NoTok
        /\ hasnext' = FALSE
        /\ structs' = IF tokenize THEN structs ELSE <<>>
        /\ enums' = IF tokenize THEN enums ELSE <<>>
  /\ UNCHANGED <<input, ast, tokenize, nread, diag>>

\* lcmgen_handle_file up to its loop: tokenize_create fails and the function
\* returns -1; or it gives a new tokenizer, and the function dumps the tokens
\* and returns when the option "tokenize" is set, and else starts to parse.
lcmgen_handle_file ==
  /\ pc = "idle"
  /\ UNCHANGED <<hashing, arrays>>
  /\ files < input.files
  /\ files' = files + 1
  /\ \/ pc' = "idle" /\ UNCHANGED <<token, hasnext>>
     \/ /\ pc' = IF tokenize THEN "idle" ELSE "entity"
        /\ token' = NoTok
        /\ hasnext' = FALSE
  /\ UNCHANGED <<input, registry, ast, tokenize, nread, diag>>

\* A parse_entity that looks at the next token without consuming it, and that
\* returns to the loop of lcmgen_handle_file at a token it does not know.
parse_entity_peeks_unknown_token ==
  /\ pc = "entity"
  /\ UNCHANGED <<hashing, arrays>>
  /\ \E x \in input.tokens \cup {EOF} :
       /\ Read(x)
       /\ hasnext' = (x \notin {EOF, tok_struct, tok_enum, tok_union})
       /\ IF x = EOF THEN pc' = "idle" /\ UNCHANGED <<registry, ast, diag>>
          ELSE IF x = tok_struct THEN pc' = "struct_name" /\ UNCHANGED <<registry, ast, diag>>
          ELSE IF x = tok_enum THEN pc' = "enum_name" /\ UNCHANGED <<registry, ast, diag>>
          ELSE IF x = tok_union THEN parse_error("unions not implemented")
          ELSE pc' = "entity" /\ UNCHANGED <<registry, ast, diag>>
  /\ UNCHANGED <<input, tokenize, files>>

\* A parse_entity that takes a token it does not know for the end of the file.
parse_entity_unknown_token_ends_file ==
  /\ pc = "entity"
  /\ UNCHANGED <<hashing, arrays>>
  /\ \E x \in input.tokens \cup {EOF} :
       /\ tokenize_next(x)
       /\ IF x = tok_struct THEN pc' = "struct_name" /\ UNCHANGED <<registry, ast, diag>>
          ELSE IF x = tok_enum THEN pc' = "enum_name" /\ UNCHANGED <<registry, ast, diag>>
          ELSE IF x = tok_union THEN parse_error("unions not implemented")
          ELSE pc' = "idle" /\ UNCHANGED <<registry, ast, diag>>
  /\ UNCHANGED <<input, tokenize, files>>

\* parse_entity up to the call of parse_struct or parse_enum.
parse_entity ==
  /\ pc = "entity"
  /\ UNCHANGED <<hashing, arrays>>
  /\ \E x \in input.tokens \cup {EOF} :
       /\ tokenize_next(x)
       /\ IF x = EOF THEN pc' = "idle" /\ UNCHANGED <<registry, ast, diag>>
          ELSE IF x = tok_struct THEN pc' = "struct_name" /\ UNCHANGED <<registry, ast, diag>>
          ELSE IF x = tok_enum THEN pc' = "enum_name" /\ UNCHANGED <<registry, ast, diag>>
          ELSE IF x = tok_union THEN parse_error("unions not implemented")
          ELSE parse_error("Missing struct/enum/union token.")
  /\ UNCHANGED <<input, tokenize, files>>

\* parse_struct: require_next(t, "struct name") and lcm_struct_create.
parse_struct_name ==
  /\ pc = "struct_name"
  /\ UNCHANGED <<hashing, arrays>>
  /\ \E x \in input.tokens \cup {EOF} :
       /\ tokenize_next(x)
       /\ IF x = EOF THEN parse_error("End of file reached, expected %s.")
          ELSE /\ lr' = lcm_struct_create(x)
               /\ pc' = "struct_open"
               /\ UNCHANGED <<registry, lt, dim, le, lev, diag>>
  /\ UNCHANGED <<input, tokenize, files>>

\* parse_struct: parse_require(t, "{").
parse_struct_open ==
  /\ pc = "struct_open"
  /\ UNCHANGED <<hashing, arrays>>
  /\ \E x \in input.tokens \cup {EOF} :
       /\ tokenize_next(x)
       /\ IF x = <<"{">> THEN pc' = "struct_loop" /\ UNCHANGED <<registry, ast, diag>>
          ELSE parse_error("expected token %s")
  /\ UNCHANGED <<input, tokenize, files>>

\* A parse_struct that returns the struct without the call of lcm_struct_hash.
parse_struct_loop_without_hash ==
  /\ pc = "struct_loop"
  /\ UNCHANGED <<hashing, arrays>>
  /\ \E x \in input.tokens \cup {EOF} :
       /\ parse_try_consume(x, <<"}">>)
       /\ IF x = EOF THEN parse_error("End of file while looking for %s.")
          ELSE IF x = <<"}">>
          THEN /\ structs' = Append(structs, lr)
               /\ lr' = NoStruct
               /\ pc' = "entity"
               /\ UNCHANGED <<enums, lt, dim, le, lev, diag>>
          ELSE /\ pc' = "member_type"
               /\ UNCHANGED <<registry, ast, diag>>
  /\ UNCHANGED <<input, tokenize, files>>

\* A parse_struct that takes the end of the file for the end of the struct.
parse_struct_loop_closed_by_end_of_file ==
  /\ pc = "struct_loop"
  /\ UNCHANGED <<hashing, arrays>>
  /\ \E x \in input.tokens \cup {EOF} :
       /\ parse_try_consume(x, <<"}">>)
       /\ IF x = EOF \/ x = <<"}">>
          THEN /\ structs' = Append(structs, [lr EXCEPT !.hash = lcm_struct_hash(lr)])
               /\ lr' = NoStruct
               /\ pc' = IF x = EOF THEN "idle" ELSE "entity"
               /\ UNCHANGED <<enums, lt, dim, le, lev, diag>>
          ELSE /\ pc' = "member_type"
               /\ UNCHANGED <<registry, ast, diag>>
  /\ UNCHANGED <<input, tokenize, files>>

\* parse_struct: the test of its loop; when "}" is consumed, the hash is stored,
\* parse_struct returns and parse_entity adds the struct to lcmgen->structs.
parse_struct_loop ==
  /\ pc = "struct_loop"
  /\ UNCHANGED <<hashing, arrays>>
  /\ \E x \in input.tokens \cup {EOF} :
       /\ parse_try_consume(x, <<"}">>)
       /\ IF x = EOF THEN parse_error("End of file while looking for %s.")
          ELSE IF x = <<"}">>
          THEN /\ structs' = Append(structs, [lr EXCEPT !.hash = lcm_struct_hash(lr)])
               /\ lr' = NoStruct
               /\ pc' = "entity"
               /\ UNCHANGED <<enums, lt, dim, le, lev, diag>>
          ELSE /\ pc' = "member_type"
               /\ UNCHANGED <<registry, ast, diag>>
  /\ UNCHANGED <<input, tokenize, files>>

\* A parse_member without the test of an inline type declaration: the token is
\* taken as the name of the type.
parse_member_type_without_inline_test ==
  /\ pc = "member_type"
  /\ UNCHANGED <<hashing, arrays>>
  /\ \E x \in input.tokens \cup {EOF} :
       /\ tokenize_next(x)
       /\ IF x = EOF THEN parse_error("End of file while looking for %s.")
          ELSE IF ~isalpha(x[1]) /\ x[1] # "_" THEN parse_error("invalid type name")
          ELSE /\ lt' = x
               /\ pc' = "member_name"
               /\ UNCHANGED <<registry, lr, dim, le, lev, diag>>
  /\ UNCHANGED <<input, tokenize, files>>

\* parse_member: the three parse_try_consume of an inline declaration, then
\* require_next(t, "type identifier") and lcm_typename_create.
parse_member_type ==
  /\ pc = "member_type"
  /\ UNCHANGED <<hashing, arrays>>
  /\ \E x \in input.tokens \cup {EOF} :
       /\ tokenize_next(x)
       /\ IF x = EOF THEN parse_error("End of file while looking for %s.")
          ELSE IF x = tok_struct THEN parse_error("recursive structs not implemented.")
          ELSE IF x = tok_enum THEN parse_error("recursive enums not implemented.")
          ELSE IF x = tok_union THEN parse_error("recursive unions not implemented.")
          ELSE IF ~isalpha(x[1]) /\ x[1] # "_" THEN parse_error("invalid type name")
          ELSE /\ lt' = x
               /\ pc' = "member_name"
               /\ UNCHANGED <<registry, lr, dim, le, lev, diag>>
  /\ UNCHANGED <<input, tokenize, files>>

\* parse_member: require_next(t, "name identifier"), the checks of the name,
\* and the new member added to lr->members.
parse_member_name ==
  /\ pc = "member_name"
  /\ UNCHANGED <<hashing, arrays>>
  /\ \E x \in input.tokens \cup {EOF} :
       /\ tokenize_next(x)
       /\ IF x = EOF THEN parse_error("End of file reached, expected %s.")
          ELSE IF ~lcm_is_legal_member_name(x)
          THEN parse_error("Invalid member name: must start with [a-zA-Z_].")
          ELSE IF lcm_find_member(lr, x) # 0
          THEN semantic_error("Duplicate member name '%s'.")
          ELSE /\ lr' = [lr EXCEPT !.members = Append(@, lcm_member_create(lt, x))]
               /\ pc' = "dim_loop"
               /\ UNCHANGED <<registry, lt, dim, le, lev, diag>>
  /\ UNCHANGED <<input, tokenize, files>>

\* parse_member: while (parse_try_consume(t, "[")).
parse_member_dim_loop ==
  /\ pc = "dim_loop"
  /\ UNCHANGED <<hashing, arrays>>
  /\ \E x \in input.tokens \cup {EOF} :
       /\ parse_try_consume(x, <<"[">>)
       /\ IF x = EOF THEN parse_error("End of file while looking for %s.")
          ELSE IF x = <<"[">>
          THEN pc' = "dim_size" /\ UNCHANGED <<registry, ast, diag>>
          ELSE pc' = "member_comma" /\ UNCHANGED <<registry, ast, diag>>
  /\ UNCHANGED <<input, tokenize, files>>


\* parse_member: the check of a size that is no number: the message of the
\* semantic error, "" when there is none. The size must name a member of
\* lr->members (the first of that name is looked at) that has no dimension and
\* an integer type.
array_size_variable_error(members, name) ==
  IF name[1] = "]"
  THEN "Array sizes must be declared either as a constant or variable."
  ELSE IF ~lcm_is_legal_member_name(name)
  THEN "Invalid array size variable name: must start with [a-zA-Z_]."
  ELSE IF \A i \in 1..Len(members) : members[i].membername # name
  THEN "Unknown variable array index '%s'. Index variables must be declared before the array."
  ELSE LET thislm == members[CHOOSE i \in 1..Len(members) :
                               /\ members[i].membername = name
                               /\ \A j \in 1..(i - 1) : members[j].membername # name]
       IN  IF Len(thislm.dimensions) # 0
           THEN "Array dimension '%s' must be not be an array type."
           ELSE IF ~lcm_is_array_dimension_type(thislm.type)
           THEN "Array dimension '%s' must be an integer type."
           ELSE ""

\* parse_member: require_next(t, "array size") and the checks of the size.
parse_member_dim_size ==
  /\ pc = "dim_size"
  /\ UNCHANGED <<hashing, arrays>>
  /\ \E x \in input.tokens \cup {EOF} :
       /\ tokenize_next(x)
       /\ IF x = EOF THEN parse_error("End of file reached, expected %s.")
          ELSE IF isdigit(x[1])
          THEN IF long_to_int(strtol(x)) <= 0 THEN semantic_error("Constant array size must be > 0")
               ELSE /\ dim' = [mode |-> LCM_CONST, size |-> x]
                    /\ pc' = "dim_close"
                    /\ UNCHANGED <<registry, lr, lt, le, lev, diag>>
          ELSE IF array_size_variable_error(lr.members, x) # ""
          THEN semantic_error(array_size_variable_error(lr.members, x))
               ELSE /\ dim' = [mode |-> LCM_VAR, size |-> x]
                    /\ pc' = "dim_close"
                    /\ UNCHANGED <<registry, lr, lt, le, lev, diag>>
  /\ UNCHANGED <<input, tokenize, files>>

\* parse_member: parse_require(t, "]") and the dimension added to the member
\* declared last.
parse_member_dim_close ==
  /\ pc = "dim_close"
  /\ UNCHANGED <<hashing, arrays>>
  /\ \E x \in input.tokens \cup {EOF} :
       /\ tokenize_next(x)
       /\ IF x = <<"]">>
          THEN /\ lr' = [lr EXCEPT !.members[Len(lr.members)].dimensions = Append(@, dim)]
               /\ dim' = NoDim
               /\ pc' = "dim_loop"
               /\ UNCHANGED <<registry, lt, le, lev, diag>>
          ELSE parse_error("expected token %s")
  /\ UNCHANGED <<input, tokenize, files>>

\* parse_member: if (!parse_try_consume(t, ",")) break.
parse_member_comma ==
  /\ pc = "member_comma"
  /\ UNCHANGED <<hashing, arrays>>
  /\ \E x \in input.tokens \cup {EOF} :
       /\ parse_try_consume(x, <<",">>)
       /\ IF x = EOF THEN parse_error("End of file while looking for %s.")
          ELSE IF x = <<",">>
          THEN pc' = "member_name" /\ UNCHANGED <<registry, ast, diag>>
          ELSE pc' = "member_semi" /\ UNCHANGED <<registry, ast, diag>>
  /\ UNCHANGED <<input, tokenize, files>>

\* parse_member: parse_require(t, ";").
parse_member_semi ==
  /\ pc = "member_semi"
  /\ UNCHANGED <<hashing, arrays>>
  /\ \E x \in input.tokens \cup {EOF} :
       /\ tokenize_next(x)
       /\ IF x = <<";">>
          THEN /\ lt' = NoType
               /\ pc' = "struct_loop"
               /\ UNCHANGED <<registry, lr, dim, le, lev, diag>>
          ELSE parse_error("expected token %s")
  /\ UNCHANGED <<input, tokenize, files>>

\* parse_enum: require_next(t, "enum name") and lcm_enum_create.
parse_enum_name ==
  /\ pc = "enum_name"
  /\ UNCHANGED <<hashing, arrays>>
  /\ \E x \in input.tokens \cup {EOF} :
       /\ tokenize_next(x)
       /\ IF x = EOF THEN parse_error("End of file reached, expected %s.")
          ELSE /\ le' = lcm_enum_create(x)
               /\ pc' = "enum_open"
               /\ UNCHANGED <<registry, lr, lt, dim, lev, diag>>
  /\ UNCHANGED <<input, tokenize, files>>

\* parse_enum: parse_require(t, "{").
parse_enum_open ==
  /\ pc = "enum_open"
  /\ UNCHANGED <<hashing, arrays>>
  /\ \E x \in input.tokens \cup {EOF} :
       /\ tokenize_next(x)
       /\ IF x = <<"{">> THEN pc' = "enum_loop" /\ UNCHANGED <<registry, ast, diag>>
          ELSE parse_error("expected token %s")
  /\ UNCHANGED <<input, tokenize, files>>

\* parse_enum: the test of its loop; when "}" is consumed, the hash is stored
\* and parse_entity adds the enum to lcmgen->enums.
parse_enum_loop ==
  /\ pc = "enum_loop"
  /\ UNCHANGED <<hashing, arrays>>
  /\ \E x \in input.tokens \cup {EOF} :
       /\ parse_try_consume(x, <<"}">>)
       /\ IF x = EOF THEN parse_error("End of file while looking for %s.")
          ELSE IF x = <<"}">>
          THEN /\ enums' = Append(enums, [le EXCEPT !.hash = lcm_enum_hash(le)])
               /\ le' = NoEnum
               /\ pc' = "entity"
               /\ UNCHANGED <<structs, lr, lt, dim, lev, diag>>
          ELSE /\ pc' = "enum_value_name"
               /\ UNCHANGED <<registry, ast, diag>>
  /\ UNCHANGED <<input, tokenize, files>>

\* parse_enum_value: require_next(t, "enum name") and lcm_enum_value_create.
parse_enum_value_name ==
  /\ pc = "enum_value_name"
  /\ UNCHANGED <<hashing, arrays>>
  /\ \E x \in input.tokens \cup {EOF} :
       /\ tokenize_next(x)
       /\ IF x = EOF THEN parse_error("End of file reached, expected %s.")
          ELSE /\ lev' = x
               /\ pc' = "enum_value_eq"
               /\ UNCHANGED <<registry, lr, lt, dim, le, diag>>
  /\ UNCHANGED <<input, tokenize, files>>

RECURSIVE max_enum_value(_, _)
max_enum_value(values, max) ==
  IF values = <<>> THEN max
  ELSE max_enum_value(Tail(values),
                      IF Head(values).value > max THEN Head(values).value ELSE max)

\* A parse_enum_value that counts on from the value declared last.
next_enum_value_after_last(values) ==
  IF values = <<>> THEN 1 ELSE values[Len(values)].value + 1

\* parse_enum_value: the value of a declaration that gives none. (The values
\* of the model stay far below INT32_MAX.)
next_enum_value(values) == max_enum_value(values, 0) + 1

\* A parse_enum_value whose loop compares the names only.
enum_value_error_names_only(values, name, value) ==
  IF \A i \in 1..Len(values) : values[i].valuename # name
  THEN ""
  ELSE "Enum value %s declared twice!"

\* parse_enum_value: the loop that looks for a value declared before with the
\* same number or the same name: the message of the semantic error of the first
\* such value, "" when there is none.
enum_value_error(values, name, value) ==
  IF \A i \in 1..Len(values) : values[i].value # value /\ values[i].valuename # name
  THEN ""
  ELSE LET tmp == values[CHOOSE i \in 1..Len(values) :
                           /\ values[i].value = value \/ values[i].valuename = name
                           /\ \A j \in 1..(i - 1) :
                                values[j].value # value /\ values[j].valuename # name]
       IN  IF tmp.value = value THEN "Enum values %s and %s have the same value %d!"
           ELSE "Enum value %s declared twice!"

\* parse_enum_value from the check for duplicates on.
add_enum_value(value) ==
  IF enum_value_error(le.values, lev, value) # ""
  THEN semantic_error(enum_value_error(le.values, lev, value))
  ELSE /\ le' = [le EXCEPT !.values = Append(@, [valuename |-> lev, value |-> value])]
       /\ lev' = NoName
       /\ pc' = "enum_comma"
       /\ UNCHANGED <<registry, lr, lt, dim, diag>>

\* parse_enum_value: if (parse_try_consume(t, "=")), else the next value.
parse_enum_value_eq ==
  /\ pc = "enum_value_eq"
  /\ UNCHANGED <<hashing, arrays>>
  /\ \E x \in input.tokens \cup {EOF} :
       /\ parse_try_consume(x, <<"=">>)
       /\ IF x = EOF THEN parse_error("End of file while looking for %s.")
          ELSE IF x = <<"=">>
          THEN pc' = "enum_value_literal" /\ UNCHANGED <<registry, ast, diag>>
          ELSE add_enum_value(next_enum_value(le.values))
  /\ UNCHANGED <<input, tokenize, files>>

\* parse_enum_value: require_next(t, "enum value literal") and strtol.
parse_enum_value_literal ==
  /\ pc = "enum_value_literal"
  /\ UNCHANGED <<hashing, arrays>>
  /\ \E x \in input.tokens \cup {EOF} :
       /\ tokenize_next(x)
       /\ IF x = EOF THEN parse_error("End of file reached, expected %s.")
          ELSE add_enum_value(long_to_int(strtol(x)))
  /\ UNCHANGED <<input, tokenize, files>>

\* A parse_enum whose first parse_try_consume takes a ";" as well as a ",".
parse_enum_comma_or_semi ==
  /\ pc = "enum_comma"
  /\ UNCHANGED <<hashing, arrays>>
  /\ \E x \in input.tokens \cup {EOF} :
       /\ Read(x)
       /\ hasnext' = (x \notin {EOF, <<",">>, <<";">>})
       /\ IF x = EOF THEN parse_error("End of file while looking for %s.")
          ELSE /\ pc' = "enum_semi"
               /\ UNCHANGED <<registry, ast, diag>>
  /\ UNCHANGED <<input, tokenize, files>>

\* parse_enum: parse_try_consume(t, ",").
parse_enum_comma ==
  /\ pc = "enum_comma"
  /\ UNCHANGED <<hashing, arrays>>
  /\ \E x \in input.tokens \cup {EOF} :
       /\ parse_try_consume(x, <<",">>)
       /\ IF x = EOF THEN parse_error("End of file while looking for %s.")
          ELSE /\ pc' = "enum_semi"
               /\ UNCHANGED <<registry, ast, diag>>
  /\ UNCHANGED <<input, tokenize, files>>

\* parse_enum: parse_try_consume(t, ";").
parse_enum_semi ==
  /\ pc = "enum_semi"
  /\ UNCHANGED <<hashing, arrays>>
  /\ \E x \in input.tokens \cup {EOF} :
       /\ parse_try_consume(x, <<";">>)
       /\ IF x = EOF THEN parse_error("End of file while looking for %s.")
          ELSE /\ pc' = "enum_loop"
               /\ UNCHANGED <<registry, ast, diag>>
  /\ UNCHANGED <<input, tokenize, files>>

Next ==
  \/ lcmgen_handle_file
  \/ parse_entity
  \/ parse_struct_name
  \/ parse_struct_open
  \/ parse_struct_loop
  \/ parse_member_type
  \/ parse_member_name
  \/ parse_member_dim_loop
  \/ parse_member_dim_size
  \/ parse_member_dim_close
  \/ parse_member_comma
  \/ parse_member_semi
  \/ parse_enum_name
  \/ parse_enum_open
  \/ parse_enum_loop
  \/ parse_enum_value_name
  \/ parse_enum_value_eq
  \/ parse_enum_value_literal
  \/ parse_enum_comma
  \/ parse_enum_semi

Spec == Init /\ [][Next]_vars

\* ------------------------------------------------------------------ the run to its end

\* The tokens of structs with arrays of constant size, and the number of tokens
\* a run reads from files written with them.
DimensionTokens ==
  { tok_struct, <<"{">>, <<"}">>, <<"[">>, <<"]">>, <<",">>, <<";">>, <<"n">>, <<"2">> }

MaxDimensionTokens == 10

\* The files of the runs that are followed to their end.
FairInputs ==
  { [tokens |-> Tokens, length |-> MaxTokens, files |-> 1],
    [tokens |-> DimensionTokens, length |-> MaxDimensionTokens, files |-> 1],
    [tokens |-> ValueTokens, length |-> MaxValueTokens, files |-> 1],
    [tokens |-> SeparatorTokens, length |-> MaxSeparatorTokens, files |-> 1],
    [tokens |-> EntityTokens, length |-> MaxEntityTokens, files |-> MaxFiles] }

\* lcmgen_create, before the first of these files is handled.
FairInit ==
  /\ input \in FairInputs
  /\ structs = <<>>
  /\ enums = <<>>
  /\ tokenize \in BOOLEAN
  /\ files = 0
  /\ pc = "idle"
  /\ token = NoTok
  /\ hasnext = FALSE
  /\ nread = 0
  /\ lr = NoStruct
  /\ lt = NoType
  /\ dim = NoDim
  /\ le = NoEnum
  /\ lev = NoName
  /\ diag = ""
  /\ hash_pc = "idle"
  /\ hash_v = Zero64
  /\ hash_c = 0
  /\ hash_s = <<>>
  /\ hash_i = 0
  /\ hash_log = <<>>
  /\ hash_n = 0
  /\ array_lm = NoMember
  /\ array_ret = NotCalled

\* The run as a sequential program: it takes its next step as long as it has
\* one.
FairSpec == FairInit /\ [][Next]_vars /\ WF_vars(Next)

\* ------------------------------------------------------------------ the signature functions alone

\* The number of calls of hash_update and hash_string_update made from outside.
MaxHashCalls == 2

\* The values of v, the characters and the strings the calls are made with.
HashSeeds == {StructSeed, EnumSeed, [i \in Bytes |-> IF i = 8 THEN 128 ELSE 0]}

HashChars == {-128, -1, 97, 127}

HashLengths == {0, 1, 2, 127, 128, 257}

HashStrings == {[i \in 1..n |-> "a"] : n \in HashLengths} \cup {<<"b">>, <<"b", "a">>}

\* The two functions called on their own: v is any of the seeds, and the
\* parser is left where lcmgen_create leaves it.
HashInit ==
  /\ input = [tokens |-> Tokens, length |-> MaxTokens, files |-> 1]
  /\ structs = <<>>
  /\ enums = <<>>
  /\ tokenize = FALSE
  /\ files = 0
  /\ pc = "idle"
  /\ token = NoTok
  /\ hasnext = FALSE
  /\ nread = 0
  /\ lr = NoStruct
  /\ lt = NoType
  /\ dim = NoDim
  /\ le = NoEnum
  /\ lev = NoName
  /\ diag = ""
  /\ hash_pc = "idle"
  /\ hash_v \in HashSeeds
  /\ hash_c = 0
  /\ hash_s = <<>>
  /\ hash_i = 0
  /\ hash_log = <<>>
  /\ hash_n = 0
  /\ array_lm = NoMember
  /\ array_ret = NotCalled

\* A call v = hash_update(v, c).
hash_update_call ==
  /\ hash_pc = "idle"
  /\ hash_n < MaxHashCalls
  /\ \E c \in HashChars :
       /\ hash_c' = c
       /\ hash_v' = hash_update(hash_v, c)
  /\ hash_n' = hash_n + 1
  /\ UNCHANGED <<hash_pc, hash_s, hash_i, hash_log>>
  /\ UNCHANGED <<parser, arrays>>

\* A call of hash_string_update(v, s), up to its loop:
\* v = hash_update(v, strlen(s)), the size_t converted to the char parameter.
hash_string_update_length ==
  /\ hash_pc = "idle"
  /\ hash_n < MaxHashCalls
  /\ \E s \in HashStrings :
       /\ hash_s' = s
       /\ hash_c' = ToChar(Len(s))
       /\ hash_v' = hash_update(hash_v, ToChar(Len(s)))
       /\ hash_log' = Append(hash_log, [length |-> Len(s), first |-> ToChar(Len(s))])
  /\ hash_i' = 0
  /\ hash_pc' = "loop"
  /\ hash_n' = hash_n + 1
  /\ UNCHANGED <<parser, arrays>>

\* hash_string_update: one turn of for (; *s != 0; s++) v = hash_update(v, *s),
\* or the return at the end of s.
hash_string_update_loop ==
  /\ hash_pc = "loop"
  /\ IF hash_i < Len(hash_s)
     THEN /\ hash_c' = Ord(hash_s[hash_i + 1])
          /\ hash_v' = hash_update(hash_v, Ord(hash_s[hash_i + 1]))
          /\ hash_i' = hash_i + 1
          /\ UNCHANGED hash_pc
     ELSE /\ hash_pc' = "idle"
          /\ UNCHANGED <<hash_v, hash_c, hash_i>>
  /\ UNCHANGED <<hash_s, hash_log, hash_n>>
  /\ UNCHANGED <<parser, arrays>>

HashNext ==
  \/ hash_update_call
  \/ hash_string_update_length
  \/ hash_string_update_loop

HashSpec == HashInit /\ [][HashNext]_vars


\* ------------------------------------------------------------------ lcm_is_constant_size_array alone

\* The number of dimensions of the members the function is called with.
MaxDimensions == 3

ArrayDimensions ==
  { [mode |-> LCM_CONST, size |-> <<"2">>],
    [mode |-> LCM_CONST, size |-> tok_2_32],
    [mode |-> LCM_VAR, size |-> <<"n">>] }

ArrayMembers ==
  { [lcm_member_create(type, <<"m">>) EXCEPT !.dimensions = d] :
      type \in {tok_int8, tok_string, <<"n">>},
      d \in UNION {[1..k -> ArrayDimensions] : k \in 0..MaxDimensions} }

\* The function called on its own: the parser and the signature functions are
\* left where lcmgen_create leaves them.
ArrayInit ==
  /\ input = [tokens |-> Tokens, length |-> MaxTokens, files |-> 1]
  /\ structs = <<>>
  /\ enums = <<>>
  /\ tokenize = FALSE
  /\ files = 0
  /\ pc = "idle"
  /\ token = NoTok
  /\ hasnext = FALSE
  /\ nread = 0
  /\ lr = NoStruct
  /\ lt = NoType
  /\ dim = NoDim
  /\ le = NoEnum
  /\ lev = NoName
  /\ diag = ""
  /\ hash_pc = "idle"
  /\ hash_v = Zero64
  /\ hash_c = 0
  /\ hash_s = <<>>
  /\ hash_i = 0
  /\ hash_log = <<>>
  /\ hash_n = 0
  /\ array_lm = NoMember
  /\ array_ret = NotCalled

\* A call of lcm_is_constant_size_array(lm).
lcm_is_constant_size_array_call ==
  /\ \E lm \in ArrayMembers :
       /\ array_lm' = lm
       /\ array_ret' = lcm_is_constant_size_array(lm)
  /\ UNCHANGED <<parser, hashing>>

ArrayNext == lcm_is_constant_size_array_call

ArraySpec == ArrayInit /\ [][ArrayNext]_vars

\* ------------------------------------------------------------------ claims

Keywords == {tok_struct, tok_enum, tok_union}

IntegerTypes == {tok_int8, tok_int16, tok_int32, tok_int64}

\* The largest element of a non-empty set of integers.
MaxOf(S) == CHOOSE m \in S : \A v \in S : v <= m

ValuesOf(values) == {values[i].value : i \in 1..Len(values)}

\* C1: in every struct that parse_struct accepts, each Variable dimension of
\* each member names another member, declared strictly earlier in the struct,
\* that has no dimension in the completed struct and one of the four integer
\* types.
C1_VariableSizeNamesEarlierIntegerScalar ==
  \A k \in 1..Len(structs) :
    LET members == structs[k].members
    IN  \A i \in 1..Len(members) :
          \A d \in 1..Len(members[i].dimensions) :
            members[i].dimensions[d].mode = LCM_VAR
              => \E j \in 1..(i - 1) :
                   /\ members[j].membername = members[i].dimensions[d].size
                   /\ Len(members[j].dimensions) = 0
                   /\ members[j].type \in IntegerTypes

\* C2, as claimed: a value declared without a literal gets one more than the
\* largest value declared before it in the enum, and 1 when it is the first.
C2_NextValueIsMaxOfPriorPlusOne ==
  [][(pc = "enum_value_eq" /\ pc' = "enum_comma")
       => le'.values[Len(le'.values)].value =
            IF le.values = <<>> THEN 1 ELSE MaxOf(ValuesOf(le.values)) + 1]_vars

\* C2, amended: a value declared without a literal gets one more than the
\* largest of 0 and the values declared before it in the enum.
C2_NextValueIsMaxOfZeroAndPriorPlusOne ==
  [][(pc = "enum_value_eq" /\ pc' = "enum_comma")
       => /\ Len(le'.values) = Len(le.values) + 1
          /\ le'.values[Len(le'.values)].value = MaxOf({0} \cup ValuesOf(le.values)) + 1]_vars

\* A value without a literal was declared after a value with a literal that is
\* smaller than an earlier value: 1, -1, 2. (Only a declaration without a
\* literal gives 1 or 2 with the tokens of the model.)
C2_Witness ==
  /\ Len(le.values) = 3
  /\ le.values[1].value = 1
  /\ le.values[2].value = 0 - 1
  /\ le.values[3].value = 2

\* C3, as claimed: at the top level a token that is none of struct, enum, union
\* ends the file as the end of the input does, with no fatal diagnostic and the
\* registry as it was.
C3_UnknownTokenEndsFile ==
  [][(pc = "entity" /\ nread' = nread + 1 /\ token' \notin Keywords)
       => (pc' = "idle" /\ diag' = "" /\ UNCHANGED registry)]_vars

\* C3, amended: at the top level a token that is none of struct, enum, union
\* ends the run with the fatal diagnostic "Missing struct/enum/union token.";
\* the file ends normally only at the end of the input; in both cases the
\* registry stays as it was.
C3_UnknownTokenIsFatal ==
  [][/\ (pc = "entity" /\ nread' = nread + 1 /\ token' \notin Keywords)
          => /\ pc' = "parse_error"
             /\ diag' = "Missing struct/enum/union token."
             /\ UNCHANGED registry
     /\ (pc = "entity" /\ pc' = "idle")
          => (nread' = nread /\ token' = token /\ diag' = "" /\ UNCHANGED registry)]_vars

\* The run stopped at a token the top level does not know, after a struct was
\* added to the registry.
C3_Witness ==
  /\ pc = "parse_error"
  /\ diag = "Missing struct/enum/union token."
  /\ token \notin Keywords
  /\ Len(structs) > 0


\* The struct that the step adds to the registry.
NewStruct == structs'[Len(structs')]

\* The names that differ from name in exactly one character, where the other
\* character is a letter or the underscore.
OtherChars == {"m", "_"}

OneCharRenamings(name) ==
  {[name EXCEPT ![p] = ch] : p \in 1..Len(name), ch \in OtherChars} \ {name}

\* Names of compound types.
CompoundTypes == {<<"n">>, <<"p", "o", "s", "e", "_", "t">>, tok_struct}

\* C4, as claimed: the hash of a struct stays the same when a member of
\* compound type is renamed.
C4_RenamingCompoundMemberKeepsHash ==
  [][structs' # structs
       => \A i \in 1..Len(NewStruct.members) :
            ~lcm_is_primitive_type(NewStruct.members[i].type)
              => \A name \in OneCharRenamings(NewStruct.members[i].membername) :
                   lcm_struct_hash([NewStruct EXCEPT !.members[i].membername = name])
                     = NewStruct.hash]_vars

\* C4, amended: lcm_struct_hash feeds the name of every member, of compound
\* type or not: the hash of a struct changes when a member of compound type is
\* renamed to a name that differs from the old one in exactly one character.
C4_RenamingCompoundMemberChangesHash ==
  [][structs' # structs
       => \A i \in 1..Len(NewStruct.members) :
            ~lcm_is_primitive_type(NewStruct.members[i].type)
              => \A name \in OneCharRenamings(NewStruct.members[i].membername) :
                   lcm_struct_hash([NewStruct EXCEPT !.members[i].membername = name])
                     # NewStruct.hash]_vars

\* The registry holds a struct with two members, the first of compound type.
C4_Witness ==
  \E k \in 1..Len(structs) :
    /\ Len(structs[k].members) = 2
    /\ ~lcm_is_primitive_type(structs[k].members[1].type)

\* C9: two structs with different names and the same list of members have the
\* same hash.
C9_StructNameIsNotHashed ==
  \A j, k \in 1..Len(structs) :
    structs[j].members = structs[k].members => structs[j].hash = structs[k].hash

\* The registry holds two structs of different names with the same members,
\* one member at least.
C9_Witness ==
  \E j, k \in 1..Len(structs) :
    /\ structs[j].structname # structs[k].structname
    /\ structs[j].members = structs[k].members
    /\ structs[j].members # <<>>

\* The hash of the members before member i of struct s.
HashBefore(s, i) == hash_members(StructSeed, SubSeq(s.members, 1, i - 1))

\* The hash of struct s when the name of member i, then its type, then its
\* dimensions are fed.
HashWithTypeFed(s, i) ==
  LET lm == s.members[i]
      v1 == hash_string_update(HashBefore(s, i), lm.membername)
      v2 == hash_string_update(v1, lm.type)
      v3 == hash_dimensions(hash_update(v2, ToChar(Len(lm.dimensions))), lm.dimensions)
  IN  hash_members(v3, SubSeq(s.members, i + 1, Len(s.members)))

\* C10: the hash of a struct stays the same when the compound type of a member
\* is replaced by another compound type, and the type of a member of primitive
\* type is fed by the string update right after the name of the member.
C10_TypeIsHashedIffPrimitive ==
  [][structs' # structs
       => \A i \in 1..Len(NewStruct.members) :
            IF lcm_is_primitive_type(NewStruct.members[i].type)
            THEN NewStruct.hash = HashWithTypeFed(NewStruct, i)
            ELSE \A t \in CompoundTypes :
                   lcm_struct_hash([NewStruct EXCEPT !.members[i].type = t])
                     = NewStruct.hash]_vars

\* The registry holds a struct with a member of compound type and, after it, a
\* member of primitive type.
C10_Witness ==
  \E k \in 1..Len(structs) :
    /\ Len(structs[k].members) = 2
    /\ ~lcm_is_primitive_type(structs[k].members[1].type)
    /\ lcm_is_primitive_type(structs[k].members[2].type)


Separators == {<<",">>, <<";">>}

AllEnums == {le} \cup {enums[k] : k \in 1..Len(enums)}

\* C5, as claimed: parse_enum skips every ',' and ';' that follows an enum
\* value. In an enum whose first value has a name that starts with a letter or
\* an underscore, and whose values have the numbers 1, 2, ... that a list
\* separated by single commas gives them, no value is named ',' or ';'.
C5_SeparatorsNeverBecomeValues ==
  \A e \in AllEnums :
    (/\ e.values # <<>>
     /\ lcm_is_legal_member_name(e.values[1].valuename)
     /\ \A i \in 1..Len(e.values) : e.values[i].value = i)
      => \A i \in 1..Len(e.values) : e.values[i].valuename \notin Separators

\* C5, amended: after an enum value parse_enum skips at most one ',' and then
\* at most one ';', which leave the list of values as it is; any other token
\* that is not the closing brace, a further ',' or ';' included, is left for
\* parse_enum_value, which takes it as the name of the next value.
C5_OneCommaThenOneSemicolonAreSkipped ==
  [][/\ (pc = "enum_comma" /\ ~Fatal')
          => /\ pc' = "enum_semi"
             /\ hasnext' = (token' # <<",">>)
             /\ UNCHANGED <<le, lev, registry>>
     /\ (pc = "enum_semi" /\ ~Fatal')
          => /\ pc' = "enum_loop"
             /\ hasnext' = (token' # <<";">>)
             /\ UNCHANGED <<le, lev, registry>>
     /\ (pc = "enum_loop" /\ ~Fatal' /\ token' # <<"}">>)
          => /\ pc' = "enum_value_name"
             /\ hasnext'
             /\ UNCHANGED <<le, lev, registry>>
     /\ (pc = "enum_value_name" /\ ~Fatal')
          => /\ pc' = "enum_value_eq"
             /\ ~hasnext'
             /\ lev' = token'
             /\ UNCHANGED <<le, registry>>]_vars

\* The registry holds an enum of three values: after the first, one ',' was
\* skipped and the next ',' became the name of the second; after the second,
\* a ';' was skipped.
C5_Witness ==
  \E k \in 1..Len(enums) :
    /\ Len(enums[k].values) = 3
    /\ enums[k].values[1].valuename \notin Separators
    /\ enums[k].values[2].valuename = <<",">>
    /\ enums[k].values[3].valuename \notin Separators
    /\ nread = 9

DistinctValues(values) ==
  \A i, j \in 1..Len(values) :
    i # j => /\ values[i].valuename # values[j].valuename
             /\ values[i].value # values[j].value

\* The step ends parse_enum_value with a value: the token after the name is
\* not "=", or the step reads the literal.
DeclaresEnumValue ==
  \/ pc = "enum_value_eq" /\ hasnext'
  \/ pc = "enum_value_literal" /\ nread' = nread + 1

\* The number of the value that the step declares.
DeclaredNumber ==
  IF pc = "enum_value_literal" THEN long_to_int(strtol(token'))
  ELSE MaxOf({0} \cup ValuesOf(le.values)) + 1

\* C6: the values of every enum of the parser, the one being parsed and those
\* of the registry, have pairwise distinct names and pairwise distinct numbers;
\* the declaration of a value whose name or number is that of an earlier value
\* of the enum is a fatal semantic error, which leaves the enum out of the
\* registry.
C6_EnumValuesAreDistinct ==
  [][/\ \A k \in 1..Len(enums') : DistinctValues(enums'[k].values)
     /\ DistinctValues(le'.values)
     /\ (/\ DeclaresEnumValue
         /\ \E i \in 1..Len(le.values) :
              \/ le.values[i].valuename = lev
              \/ le.values[i].value = DeclaredNumber)
          => /\ pc' = "semantic_error"
             /\ diag' \in {"Enum values %s and %s have the same value %d!",
                           "Enum value %s declared twice!"}
             /\ UNCHANGED <<le, registry>>]_vars

\* The parser stopped at the second value of an enum, which has another name
\* than the first value and the same negative number.
C6_Witness ==
  /\ pc = "semantic_error"
  /\ diag = "Enum values %s and %s have the same value %d!"
  /\ Len(le.values) = 1
  /\ le.values[1].valuename # lev
  /\ le.values[1].value = -1

DistinctMemberNames(members) ==
  \A i, j \in 1..Len(members) :
    i # j => members[i].membername # members[j].membername

\* C7: the members of every struct, the one being parsed and those of the
\* registry, have pairwise distinct names; the declaration of a member whose
\* name is that of an earlier member of the struct is a fatal semantic error.
C7_MemberNamesAreDistinct ==
  [][/\ \A k \in 1..Len(structs') : DistinctMemberNames(structs'[k].members)
     /\ DistinctMemberNames(lr'.members)
     /\ (/\ pc = "member_name"
         /\ nread' = nread + 1
         /\ \E i \in 1..Len(lr.members) : lr.members[i].membername = token')
          => /\ pc' = "semantic_error"
             /\ diag' = "Duplicate member name '%s'."
             /\ UNCHANGED <<lr, registry>>]_vars

\* The registry holds two structs that have a member of the same name, and
\* the first of them has two members of one member declaration.
C7_Witness ==
  /\ Len(structs) = 2
  /\ Len(structs[1].members) = 2
  /\ Len(structs[2].members) = 1
  /\ structs[1].members[1].type = structs[1].members[2].type
  /\ \E i \in 1..2 : structs[1].members[i].membername = structs[2].members[1].membername

\* The enum that the step adds to the registry.
NewEnum == enums'[Len(enums')]

\* C8: a step adds a struct or an enum to the registry only when it consumes
\* the closing brace of the entity, with the contents that the entity has then
\* and with the hash of these contents; it leaves the earlier entries as they
\* are; and a step to a fatal diagnostic leaves the registry as it is.
C8_RegistryHoldsCompleteEntities ==
  [][/\ structs' # structs
          => /\ pc = "struct_loop" /\ token' = <<"}">> /\ ~hasnext'
             /\ structs' = Append(structs, NewStruct)
             /\ NewStruct.structname = lr.structname
             /\ NewStruct.members = lr.members
             /\ NewStruct.hash = lcm_struct_hash(NewStruct)
             /\ enums' = enums
     /\ enums' # enums
          => /\ pc = "enum_loop" /\ token' = <<"}">> /\ ~hasnext'
             /\ enums' = Append(enums, NewEnum)
             /\ NewEnum.enumname = le.enumname
             /\ NewEnum.values = le.values
             /\ NewEnum.hash = lcm_enum_hash(NewEnum)
             /\ structs' = structs
     /\ Fatal' => UNCHANGED registry
     /\ Fatal => UNCHANGED vars]_vars

\* The registry holds one struct, and the parser stopped at a fatal diagnostic
\* in the second struct, which has a member.
C8_Witness ==
  /\ Fatal
  /\ Len(structs) = 1
  /\ Len(lr.members) > 0

\* The hash of an enum when the string update of the name is written out: the
\* length of the name, then its characters, from the seed 0x87654321.
NameHash(name) == hash_chars[hash_update(EnumSeed, ToChar(Len(name))), name]

\* C11: the hash that parse_enum stores for an enum is the string update of
\* the name of the enum from the seed 0x87654321, and it is the hash of every
\* enum of the registry that has the same name, whatever the values of the two
\* enums.
C11_EnumHashIsOfNameOnly ==
  [][enums' # enums
       => /\ NewEnum.hash = NameHash(NewEnum.enumname)
          /\ \A k \in 1..Len(enums) :
               enums[k].enumname = NewEnum.enumname => enums[k].hash = NewEnum.hash]_vars

\* The registry holds two enums of the same name, the first with a value and
\* the second without.
C11_Witness ==
  /\ Len(enums) = 2
  /\ enums[1].enumname = enums[2].enumname
  /\ enums[1].values # <<>>
  /\ enums[2].values = <<>>

\* A token of decimal digits only, and the two cases of its value.
DecimalNumber(t) == t # <<>> /\ \A i \in 1..Len(t) : isdigit(t[i])

ZeroNumber(t) == DecimalNumber(t) /\ \A i \in 1..Len(t) : t[i] = "0"

PositiveNumber(t) == DecimalNumber(t) /\ \E i \in 1..Len(t) : t[i] # "0"

\* C12: every Constant dimension of a struct of the registry has a size that
\* is a strictly positive number; a size token that is the number zero is a
\* fatal semantic error; and a size token that is a strictly positive number
\* gives a Constant dimension with the token as its size.
C12_PositiveSizesAreConstantDimensions ==
  [][/\ \A k \in 1..Len(structs') :
          \A i \in 1..Len(structs'[k].members) :
            \A d \in 1..Len(structs'[k].members[i].dimensions) :
              structs'[k].members[i].dimensions[d].mode = LCM_CONST
                => PositiveNumber(structs'[k].members[i].dimensions[d].size)
     /\ (pc = "dim_size" /\ nread' = nread + 1 /\ ZeroNumber(token'))
          => /\ pc' = "semantic_error"
             /\ diag' = "Constant array size must be > 0"
     /\ (pc = "dim_size" /\ nread' = nread + 1 /\ PositiveNumber(token'))
          => /\ pc' = "dim_close"
             /\ dim' = [mode |-> LCM_CONST, size |-> token']]_vars

\* C13: every name of the registry, of a struct, of an enum, of a member and
\* of an enum value, starts with a letter or an underscore.
C13_RegistryNamesAreIdentifiers ==
  /\ \A k \in 1..Len(structs) :
       /\ lcm_is_legal_member_name(structs[k].structname)
       /\ \A i \in 1..Len(structs[k].members) :
            lcm_is_legal_member_name(structs[k].members[i].membername)
  /\ \A k \in 1..Len(enums) :
       /\ lcm_is_legal_member_name(enums[k].enumname)
       /\ \A i \in 1..Len(enums[k].values) :
            lcm_is_legal_member_name(enums[k].values[i].valuename)

\* The list of members with the members at positions i and j swapped.
SwapMembers(members, i, j) ==
  [k \in 1..Len(members) |->
     IF k = i THEN members[j] ELSE IF k = j THEN members[i] ELSE members[k]]

C15_UnionAndInlineDeclarationsAreFatal ==
  [][/\ (pc = "entity" /\ nread' = nread + 1 /\ token' = tok_union)
          => /\ pc' = "parse_error"
             /\ diag' = "unions not implemented"
             /\ UNCHANGED registry
     /\ (pc = "member_type" /\ token' \in Keywords)
          => /\ pc' = "parse_error"
             /\ diag' = IF token' = tok_struct THEN "recursive structs not implemented."
                        ELSE IF token' = tok_enum THEN "recursive enums not implemented."
                        ELSE "recursive unions not implemented."
             /\ UNCHANGED <<registry, lr>>
     /\ \A i \in 1..Len(lr'.members) : lr'.members[i].type \notin Keywords
     /\ \A k \in 1..Len(structs') :
          \A i \in 1..Len(structs'[k].members) :
            structs'[k].members[i].type \notin Keywords]_vars

\* The parser stopped at the token struct where the type of the second member
\* of a struct stands.
C15_Witness ==
  /\ pc = "parse_error"
  /\ diag = "recursive structs not implemented."
  /\ token = tok_struct
  /\ Len(lr.members) = 1

\* Bit k of an int64_t, bit 0 the least significant.
Bit(v, k) == (v[(k \div 8) + 1] \div (2 ^ (k % 8))) % 2

\* w is ((v << 8) xor (v shifted right by 55)) + c, bit by bit: bit k of w - c
\* is bit k - 8 of v, exclusive or bit k + 55 of v, and the shift fills the
\* bits above bit 8 with fill.
IsUpdateOf(w, v, c, fill) ==
  LET x == Add64(w, SignExtend(-c))
  IN  \A k \in 0..63 :
        Bit(x, k) = ((IF k >= 8 THEN Bit(v, k - 8) ELSE 0)
                       + (IF k <= 8 THEN Bit(v, k + 55) ELSE fill)) % 2

\* The step feeds a character to hash_update.
FeedsCharacter == hash_pc = "idle" \/ hash_i < Len(hash_s)

\* C16 as stated: hash_update computes ((v << 8) xor (v >>> 55)) + c modulo
\* 2^64 with a right shift that fills with zeros, for every v and every c.
C16_UpdateShiftsLogically ==
  [][FeedsCharacter => IsUpdateOf(hash_v', hash_v, hash_c', 0)]_vars

\* C16: hash_update computes ((v << 8) xor (v >> 55)) + c modulo 2^64 with
\* the right shift of a signed value, which fills with the sign bit of v, and
\* with c a signed character, for every v and every c.
C16_UpdateShiftsArithmetically ==
  [][FeedsCharacter => IsUpdateOf(hash_v', hash_v, hash_c', Bit(hash_v, 63))]_vars

\* hash_update was called with v = 0x8000000000000000, which has the top bit
\* set, and c = -128, and gave 0xFFFFFFFFFFFFFE80.
C16_Witness ==
  /\ hash_n = 1
  /\ hash_pc = "idle"
  /\ hash_c = -128
  /\ hash_v = <<128, 254, 255, 255, 255, 255, 255, 255>>


\* C17: hash_string_update first feeds a character whose value is the number
\* of bytes of the string, whatever the length, then each byte of the string
\* in order; two strings of different lengths start with different fed values.
C17_LengthIsFedAsByteCount ==
  /\ \A k \in 1..Len(hash_log) : hash_log[k].first = hash_log[k].length
  /\ \A j, k \in 1..Len(hash_log) :
       hash_log[j].length # hash_log[k].length => hash_log[j].first # hash_log[k].first
  /\ (hash_pc = "loop" /\ hash_i = 0) => hash_c = Len(hash_s)
  /\ (hash_pc = "loop" /\ hash_i > 0) => hash_c = Ord(hash_s[hash_i])


\* The parser stands inside a struct or an enum declaration: after the keyword
\* and before the end of parse_struct or parse_enum.
InDeclaration == pc \notin {"idle", "entity", "parse_error", "semantic_error"}

\* The step finds the end of the file: no token is peeked and none is read.
ReadsEndOfFile == ~hasnext /\ nread' = nread /\ pc \notin {"idle", "parse_error", "semantic_error"}

EndOfFileMessages ==
  { "End of file while looking for %s.",
    "End of file reached, expected %s.",
    "expected token %s" }

\* C18: the end of the file inside a struct or an enum declaration ends the run
\* with a fatal diagnostic and leaves the registry as it is; the end of the
\* file where an entity starts ends the file without a diagnostic, and a file
\* ends in no other place.
C18_EndOfFileInsideDeclarationIsFatal ==
  [][/\ (InDeclaration /\ ReadsEndOfFile)
          => /\ pc' = "parse_error"
             /\ diag' \in EndOfFileMessages
             /\ UNCHANGED registry
     /\ (pc = "entity" /\ ReadsEndOfFile)
          => /\ pc' = "idle"
             /\ diag' = ""
             /\ UNCHANGED registry
     /\ (pc # "idle" /\ pc' = "idle") => (pc = "entity" /\ ReadsEndOfFile)]_vars

\* The file ended inside the second struct, after the type of a member.
C18_Witness ==
  /\ pc = "parse_error"
  /\ diag = "End of file reached, expected %s."
  /\ Len(structs) = 1
  /\ lr.structname # <<>>
  /\ lt # NoType
  /\ nread < input.length


\* s is the start of t.
IsPrefix(s, t) == Len(s) <= Len(t) /\ \A k \in 1..Len(s) : t[k] = s[k]

\* The step consumes the closing brace of a struct or of an enum.
ClosesEntity == pc \in {"struct_loop", "enum_loop"} /\ token' = <<"}">> /\ ~hasnext'

\* C19: the lists of structs and of enums only grow at their ends, in every
\* file of the run: the step that ends an entity adds one element to one of the
\* two lists and leaves the other list as it is, every other step leaves both
\* lists as they are, and the elements added before stay as they are.
C19_RegistryIsAppendOnly ==
  [][/\ IsPrefix(structs, structs')
     /\ IsPrefix(enums, enums')
     /\ (pc = "struct_loop" /\ ClosesEntity)
          => Len(structs') = Len(structs) + 1 /\ enums' = enums
     /\ (pc = "enum_loop" /\ ClosesEntity)
          => Len(enums') = Len(enums) + 1 /\ structs' = structs
     /\ ~ClosesEntity => UNCHANGED registry]_vars

\* The second file of the run added an enum after the struct of the first file.
C19_Witness ==
  /\ files = 2
  /\ pc = "entity"
  /\ Len(structs) = 1
  /\ Len(enums) = 1
  /\ nread = 8


\* C20: lcm_is_constant_size_array returns zero for a member without a
\* dimension and for a member with a dimension of mode LCM_VAR, and a value
\* other than zero exactly for the members that have a dimension and only
\* dimensions of mode LCM_CONST.
C20_ConstantSizeArrayHasDimensions ==
  array_ret # NotCalled =>
    LET dimensions == array_lm.dimensions
        constant == \A i \in 1..Len(dimensions) : dimensions[i].mode = LCM_CONST
    IN  /\ dimensions = <<>> => array_ret = 0
        /\ ~constant => array_ret = 0
        /\ array_ret # 0 <=> (dimensions # <<>> /\ constant)


\* lcmgen_handle_file is in its loop over the entities of a file.
Parsing == pc \notin {"idle", "parse_error", "semantic_error"}

\* The number of tokens of the files that are still to be consumed: a token
\* that was peeked is read and not yet consumed.
Unconsumed == input.length - nread + (IF hasnext THEN 1 ELSE 0)

\* The places where a token that was peeked and not consumed is handed to the
\* next test, ranked by the number of tests that can follow before the token is
\* consumed.
TestsAhead ==
  CASE pc = "enum_value_eq" -> 4
    [] pc = "enum_comma" -> 3
    [] pc = "enum_semi" -> 2
    [] pc = "enum_loop" -> 1
    [] pc = "dim_loop" -> 2
    [] pc = "member_comma" -> 1
    [] pc = "struct_loop" -> 1
    [] OTHER -> 0

\* C21: in parsing mode lcmgen_handle_file terminates on every finite token
\* stream: each step of the parser consumes a token, or ends the file or the
\* run, or hands a peeked token to the next of at most four tests that come
\* before the token is consumed; so the parser always reaches the end of the
\* file or a fatal diagnostic.
C21_ParsingTerminates ==
  /\ [][Parsing => \/ ~Parsing'
                   \/ Unconsumed' < Unconsumed
                   \/ Unconsumed' = Unconsumed /\ TestsAhead' < TestsAhead]_vars
  /\ (Parsing ~> ~Parsing)

\* The parser returned at the end of a file in which it went through the loop
\* of parse_entity, the loop of parse_struct and the loop over the dimensions
\* of a member.
C21_Witness ==
  /\ pc = "idle"
  /\ files = 1
  /\ diag = ""
  /\ tokenize = FALSE
  /\ Len(structs) = 1
  /\ Len(structs[1].members) = 1
  /\ Len(structs[1].members[1].dimensions) = 1

====
